---- MODULE Spec2Model ----
(***************************************************************************)
(* Model of the Launchpad MIDI service (src/src/midi.rs): the supervisor    *)
(* thread of start_midi_service, one connection attempt / session of        *)
(* run_midi_loop, the input callback registered on the input port, and the  *)
(* host on the other end of the two mpsc channels.                          *)
(***************************************************************************)
EXTENDS Integers, Sequences, FiniteSets, TLC

(* ------------------------------ bounds --------------------------------- *)
\* connection attempts (iterations of the supervisor loop) explored
MaxAttempts == 3
\* commands the host issues in one behaviour
MaxIssued == 2
\* raw messages the backend delivers to the input callback in one behaviour
MaxInput == 1
\* ports in a list the port matcher is applied to
MaxPorts == 3

(* -------------------------- program constants -------------------------- *)
\* for attempt in 0..3
EnumAttempts == 3
\* for i in 0..127
ClearEnd == 127
NoteOnStatus == 144
ControlChangeStatus == 176

\* F0h 00h 20h 29h 02h 0Dh 0Eh 01h F7h
ModeSwitch == <<240, 0, 32, 41, 2, 13, 14, 1, 247>>

(* ------------------------------ data types ----------------------------- *)
Connected == [type |-> "Connected"]
Disconnected == [type |-> "Disconnected"]
NoteOn(n, v) == [type |-> "NoteOn", note |-> n, velocity |-> v]
ControlChange(c, v) == [type |-> "ControlChange", controller |-> c, value |-> v]

SetPadColor(n, c) == [type |-> "SetPadColor", note |-> n, color |-> c]
SetButtonColor(k, c) == [type |-> "SetButtonColor", cc |-> k, color |-> c]
ClearAll == [type |-> "ClearAll"]
NoCmd == [type |-> "None"]

\* A port as the backend reports it: the name lookup either fails or yields
\* a name, a sequence of words.
Port(ok, words) == [readable |-> ok, name |-> words]

(* ------------------------------- inputs -------------------------------- *)
\* commands the host issues: single-message commands for the lifecycle
\* specification, the ClearAll burst for the dispatcher specification
HostCmds == {SetPadColor(10, 21), SetButtonColor(91, 5)}
BurstCmds == HostCmds \cup {ClearAll}

\* sampled values of a u8 parameter (both ends, both sides of the 7-bit
\* limit), and the single-message commands over them
U8Samples == {0, 1, 10, 21, 91, 127, 128, 200, 255}
EncodeCmds ==
    {SetPadColor(n, c) : n \in U8Samples, c \in U8Samples}
    \cup {SetButtonColor(k, c) : k \in U8Samples, c \in U8Samples}

\* raw message the backend delivers to the input callback during a session
\* (a pad press); every branch of the decoder is covered under DecodeSpec
RawMsgs == {<<144, 60, 100>>}

\* byte values and lengths of the raw messages the decoder is applied to
ByteSamples == {0, 1, 60, 127, 128, 143, 144, 159, 176, 191, 200, 255}
RawSamples ==
    {<< >>}
    \cup {<<a>> : a \in ByteSamples}
    \cup {<<a, b>> : a \in {144, 176}, b \in ByteSamples}
    \cup {<<a, b, c>> : a \in ByteSamples, b \in {0, 60}, c \in ByteSamples}
    \cup {<<a, 60, c, 0>> : a \in {128, 144, 176}, c \in {0, 100}}

\* port names and ports the port matcher is applied to, in lists of up to
\* MaxPorts ports
PortNames ==
    { <<"Launchpad", "MIDI", "1">>, <<"Launchpad", "DAW">>, <<"Other", "Device">>,
      <<"Launchpad", "Mini">>, <<"Launchpad", "DAW", "MIDI">> }
MatchPorts ==
    {Port(TRUE, n) : n \in PortNames}
    \cup {Port(FALSE, <<"Launchpad", "MIDI", "1">>), Port(FALSE, <<"Launchpad", "DAW">>)}
MatchLists == UNION {[1..k -> MatchPorts] : k \in 0..MaxPorts}

\* port lists one enumeration can return (either direction)
PortLists ==
    { <<>>,
      << Port(FALSE, <<"Launchpad", "MIDI">>) >>,
      << Port(TRUE, <<"Launchpad", "DAW">>), Port(TRUE, <<"Launchpad", "MIDI">>) >> }

VARIABLES
    pc,             \* position of the worker thread
    first_attempt,  \* local of the supervisor closure
    result,         \* value run_midi_loop returned: "None" (running), "Ok", "Err"
    attempt,        \* loop variable of the enumeration loop
    in_ports,       \* last_attempt's input port list
    out_ports,      \* last_attempt's output port list
    lp_in,          \* index in in_ports of the selected input port, 0 for None
    lp_out,         \* index in out_ports of the selected output port, 0 for None
    connIn,         \* _conn_in is alive: the input callback is registered
    connOut,        \* conn_out is alive
    outLog,         \* messages sent on conn_out since it was opened
    cmd,            \* command dequeued by rx_cmd.recv()
    idx,            \* messages of cmd already sent
    cmdQueue,       \* content of the command channel
    txAlive,        \* the host still holds the Sender<MidiCommand>
    events,         \* events delivered on the event channel, in order
    rxOpen,         \* the host still holds the Receiver<MidiEvent>
    lastSend,       \* the Result of the last tx.send on the event channel
    message,        \* argument of the last invocation of the input callback
    \* history
    issued,         \* every command the host sent, in order
    nDeq,           \* commands dequeued so far
    nAttempts,      \* calls of run_midi_loop so far
    nFails,         \* Err returns of run_midi_loop so far
    nHandshakes,    \* successful sends of ModeSwitch so far
    nConnected,     \* sends of Connected so far
    settled,        \* the 100 ms settle delay of this attempt has elapsed
    discSinceFail,  \* sends of Disconnected since the last Err return
    estAtFail,      \* a session had been established when the last Err returned
    nInput,         \* invocations of the input callback so far
    enumCount,      \* port enumerations of the enumeration loop in progress
    pauseCount      \* 500 ms pauses of the enumeration loop in progress

\* the selection locals and the counters of the enumeration loop
selVars == << lp_in, lp_out, enumCount, pauseCount >>

vars == << pc, first_attempt, result, attempt, in_ports, out_ports, selVars, connIn, connOut,
           outLog, cmd, idx, cmdQueue, txAlive, events, rxOpen, lastSend, message,
           issued, nDeq, nAttempts, nFails, nHandshakes, nConnected, settled,
           discSinceFail, estAtFail, nInput >>

workerVars == << pc, first_attempt, result, attempt, in_ports, out_ports, selVars, connIn,
                 connOut, outLog, cmd, idx >>
hostVars == << cmdQueue, txAlive, rxOpen, issued >>
histVars == << nDeq, nAttempts, nFails, nHandshakes, nConnected, settled,
               discSinceFail, estAtFail >>
cbVars == << message, nInput >>

(* ------------------------------ helpers -------------------------------- *)
\* name.contains(word)
Contains(name, word) == \E k \in 1..Len(name) : name[k] = word

\* Sender::send on the event channel: delivered iff the receiver is alive
ChanSend(q, ev) == IF rxOpen THEN Append(q, ev) ELSE q
\* the Result of that send, which every caller discards with `let _ =`
SendResult(ev) == [type |-> ev.type, ok |-> rxOpen]
NoSend == [type |-> "None", ok |-> TRUE]

Tier1(p) == p.readable /\ Contains(p.name, "Launchpad")
            /\ (Contains(p.name, "MIDI") \/ Contains(p.name, "LPMiniMK3 MIDI"))
Tier2(p) == p.readable /\ Contains(p.name, "Launchpad") /\ ~Contains(p.name, "DAW")
\* a mutation of Tier3: a failed name lookup is not skipped
Tier3LookupNotChecked(p) == Contains(p.name, "Launchpad")

Tier3(p) == p.readable /\ Contains(p.name, "Launchpad")

\* the closure of the find of tier t
TierMatches(t, p) == IF t = 1 THEN Tier1(p) ELSE IF t = 2 THEN Tier2(p) ELSE Tier3(p)

\* iter().find(closure of tier t): index of the first matching port from
\* position k on, 0 for None
RECURSIVE FindFrom(_, _, _)
FindFrom(ports, t, k) ==
    IF k > Len(ports) THEN 0
    ELSE IF TierMatches(t, ports[k]) THEN k
    ELSE FindFrom(ports, t, k + 1)

\* a mutation of SelectPort: the DAW-free tier is tried before the MIDI tier
SelectPortTier2First(ports) ==
    LET a == FindFrom(ports, 1, 1)
        b == FindFrom(ports, 2, 1)
        c == FindFrom(ports, 3, 1)
    IN  IF b # 0 THEN b ELSE IF a # 0 THEN a ELSE c

\* find(tier 1).or_else(find(tier 2)).or_else(find(tier 3))
SelectPort(ports) ==
    LET a == FindFrom(ports, 1, 1)
        b == FindFrom(ports, 2, 1)
        c == FindFrom(ports, 3, 1)
    IN  IF a # 0 THEN a ELSE IF b # 0 THEN b ELSE c

\* any(|p| port_name(p).is_ok()) over both lists
HasValidName(ins, outs) ==
    \/ \E k \in 1..Len(ins) : ins[k].readable
    \/ \E k \in 1..Len(outs) : outs[k].readable

\* a mutation of StatusOf: the channel nibble is not masked off
StatusOfUnmasked(b) == b

\* message[0] & 0xF0
StatusOf(b) == (b \div 16) * 16

\* body of the input callback: the events it sends for one raw message
Decode(msg) ==
    IF Len(msg) >= 3
    THEN IF StatusOf(msg[1]) = NoteOnStatus
         THEN IF msg[3] > 0 THEN << NoteOn(msg[2], msg[3]) >> ELSE << >>
         ELSE IF StatusOf(msg[1]) = ControlChangeStatus
         THEN IF msg[3] > 0 THEN << ControlChange(msg[2], msg[3]) >> ELSE << >>
         ELSE << >>
    ELSE << >>

\* number of messages the match arm of a command sends when no send fails
MsgCount(c) == IF c.type = "ClearAll" THEN 2 * ClearEnd ELSE 1

\* a mutation of MsgAt: in the ClearAll loop the CC-Off is sent before the
\* Note-Off
MsgAtCcFirst(c, k) ==
    IF c.type = "SetPadColor" THEN << NoteOnStatus, c.note, c.color >>
    ELSE IF c.type = "SetButtonColor" THEN << ControlChangeStatus, c.cc, c.color >>
    ELSE IF k % 2 = 0 THEN << ControlChangeStatus, k \div 2, 0 >>
    ELSE << NoteOnStatus, k \div 2, 0 >>

\* a mutation of MsgAt: the colour is masked to 7 bits
MsgAtColorMasked(c, k) ==
    IF c.type = "SetPadColor" THEN << NoteOnStatus, c.note, c.color % 128 >>
    ELSE IF c.type = "SetButtonColor" THEN << ControlChangeStatus, c.cc, c.color % 128 >>
    ELSE IF k % 2 = 0 THEN << NoteOnStatus, k \div 2, 0 >>
    ELSE << ControlChangeStatus, k \div 2, 0 >>

\* the message the match arm of command c sends after k earlier sends
MsgAt(c, k) ==
    IF c.type = "SetPadColor" THEN << NoteOnStatus, c.note, c.color >>
    ELSE IF c.type = "SetButtonColor" THEN << ControlChangeStatus, c.cc, c.color >>
    ELSE IF k % 2 = 0 THEN << NoteOnStatus, k \div 2, 0 >>
    ELSE << ControlChangeStatus, k \div 2, 0 >>

(* ------------------------------- Init ---------------------------------- *)
InitBase ==
    /\ pc = "top"
    /\ first_attempt = TRUE
    /\ result = "None"
    /\ attempt = 0
    /\ in_ports = << >>
    /\ out_ports = << >>
    /\ connIn = FALSE
    /\ connOut = FALSE
    /\ outLog = << >>
    /\ cmd = NoCmd
    /\ idx = 0
    /\ cmdQueue = << >>
    /\ txAlive = TRUE
    /\ events = << >>
    /\ rxOpen = TRUE
    /\ lastSend = NoSend
    /\ issued = << >>
    /\ nDeq = 0
    /\ nAttempts = 0
    /\ nFails = 0
    /\ nHandshakes = 0
    /\ nConnected = 0
    /\ settled = FALSE
    /\ discSinceFail = 0
    /\ estAtFail = FALSE
    /\ nInput = 0
    /\ lp_in = 0
    /\ lp_out = 0
    /\ enumCount = 0
    /\ pauseCount = 0

Init == InitBase /\ message = << >>

(* ------------------------- run_midi_loop returns ------------------------ *)
\* run_midi_loop returns r: its locals (ports, connections) are dropped
Return(r) ==
    /\ pc' = "returned"
    /\ result' = r
    /\ attempt' = 0
    /\ in_ports' = << >>
    /\ out_ports' = << >>
    /\ lp_in' = 0
    /\ lp_out' = 0
    /\ enumCount' = 0
    /\ pauseCount' = 0
    /\ connIn' = FALSE
    /\ connOut' = FALSE
    /\ outLog' = << >>
    /\ cmd' = NoCmd
    /\ idx' = 0
    /\ nFails' = nFails + 1
    /\ discSinceFail' = 0
    /\ estAtFail' = (nConnected > 0)
    /\ settled' = FALSE

\* `?` on an Err, or return Err(..)
ReturnErr == Return("Err")

(* ----------------------------- supervisor ------------------------------ *)
\* a mutation of SendsDisconnected: the test of first_attempt inverted
SendsDisconnectedInverted == first_attempt

\* if !first_attempt
SendsDisconnected == ~first_attempt

\* loop head: if !first_attempt { send Disconnected }; call run_midi_loop
LoopTop ==
    /\ pc = "top"
    /\ nAttempts < MaxAttempts
    /\ IF SendsDisconnected
       THEN /\ events' = ChanSend(events, Disconnected)
            /\ lastSend' = SendResult(Disconnected)
            /\ discSinceFail' = discSinceFail + 1
       ELSE UNCHANGED << events, lastSend, discSinceFail >>
    /\ pc' = "enum"
    /\ attempt' = 0
    /\ result' = "None"
    /\ nAttempts' = nAttempts + 1
    /\ UNCHANGED << first_attempt, in_ports, out_ports, selVars, connIn, connOut, outLog, cmd, idx,
                    nDeq, nFails, nHandshakes, nConnected, settled, estAtFail >>
    /\ UNCHANGED hostVars
    /\ UNCHANGED cbVars

\* a mutation of FirstAttemptAfterErr: the flag is not cleared
FirstAttemptNotCleared == first_attempt

\* first_attempt after the Err arm: cleared if it was set, false otherwise
FirstAttemptAfterErr == FALSE

\* match run_midi_loop(..) { Ok => break, Err => { first_attempt = false; sleep } }
MatchResult ==
    /\ pc = "returned"
    /\ IF result = "Ok"
       THEN /\ pc' = "stopped"
            /\ UNCHANGED first_attempt
       ELSE /\ pc' = "sleep"
            /\ first_attempt' = FirstAttemptAfterErr
    /\ UNCHANGED << result, attempt, in_ports, out_ports, selVars, connIn, connOut, outLog, cmd, idx >>
    /\ UNCHANGED << events, lastSend >>
    /\ UNCHANGED hostVars
    /\ UNCHANGED histVars
    /\ UNCHANGED cbVars

\* thread::sleep(Duration::from_secs(2)) is over
RetryDelay ==
    /\ pc = "sleep"
    /\ pc' = "top"
    /\ UNCHANGED << first_attempt, result, attempt, in_ports, out_ports, selVars, connIn, connOut,
                    outLog, cmd, idx >>
    /\ UNCHANGED << events, lastSend >>
    /\ UNCHANGED hostVars
    /\ UNCHANGED histVars
    /\ UNCHANGED cbVars

(* --------------------- run_midi_loop: enumeration ---------------------- *)
\* a mutation of PausesBefore: the pause precedes every pass
PausesBeforeEveryPass(a) == TRUE

\* if attempt > 0 { thread::sleep(Duration::from_millis(500)) }
PausesBefore(a) == a > 0

\* one pass of `for attempt in 0..3`: the backend objects are created, the
\* ports are listed, and the pass is kept as last_attempt
EnumerateFrom(L) ==
    /\ pc = "enum"
    /\ attempt < EnumAttempts
    /\ pauseCount' = pauseCount + (IF PausesBefore(attempt) THEN 1 ELSE 0)
    /\ enumCount' = enumCount + 1
    /\ UNCHANGED << lp_in, lp_out >>
    /\ \E ins \in L, outs \in L :
          /\ in_ports' = ins
          /\ out_ports' = outs
          /\ IF HasValidName(ins, outs) \/ attempt + 1 = EnumAttempts
             THEN pc' = "select" /\ attempt' = 0
             ELSE pc' = "enum" /\ attempt' = attempt + 1
    /\ UNCHANGED << first_attempt, result, connIn, connOut, outLog, cmd, idx >>
    /\ UNCHANGED << events, lastSend >>
    /\ UNCHANGED hostVars
    /\ UNCHANGED histVars
    /\ UNCHANGED cbVars

Enumerate == EnumerateFrom(PortLists)

\* MidiInput::new(..)? or MidiOutput::new(..)? fails
BackendInitFails ==
    /\ pc = "enum"
    /\ attempt < EnumAttempts
    /\ ReturnErr
    /\ UNCHANGED << first_attempt, events, lastSend >>
    /\ UNCHANGED hostVars
    /\ UNCHANGED << nDeq, nAttempts, nHandshakes, nConnected >>
    /\ UNCHANGED cbVars

\* port selection: lp_in and lp_out are computed from the kept lists
Select ==
    /\ pc = "select"
    /\ pc' = "check"
    /\ lp_in' = SelectPort(in_ports)
    /\ lp_out' = SelectPort(out_ports)
    /\ enumCount' = 0
    /\ pauseCount' = 0
    /\ UNCHANGED << first_attempt, result, attempt, in_ports, out_ports, connIn, connOut,
                    outLog, cmd, idx >>
    /\ UNCHANGED << events, lastSend >>
    /\ UNCHANGED hostVars
    /\ UNCHANGED histVars
    /\ UNCHANGED cbVars

\* if let (Some(in_port), Some(out_port)) = (lp_in, lp_out) { .. } else
\* { return Err("Launchpad not found") }
CheckFound ==
    /\ pc = "check"
    /\ IF lp_in # 0 /\ lp_out # 0
       THEN /\ pc' = "connect_in"
            /\ UNCHANGED << result, attempt, in_ports, out_ports, selVars, connIn, connOut,
                            outLog, cmd, idx, nFails, discSinceFail, estAtFail, settled >>
       ELSE ReturnErr
    /\ UNCHANGED << first_attempt, events, lastSend >>
    /\ UNCHANGED hostVars
    /\ UNCHANGED << nDeq, nAttempts, nHandshakes, nConnected >>
    /\ UNCHANGED cbVars

(* ---------------------- run_midi_loop: handshake ----------------------- *)
\* midi_in.connect(in_port, "launchpad-in", callback, ())?
ConnectIn ==
    /\ pc = "connect_in"
    /\ \/ /\ connIn' = TRUE
          /\ pc' = "connect_out"
          /\ UNCHANGED << result, attempt, in_ports, out_ports, selVars, connOut, outLog, cmd, idx,
                          nFails, discSinceFail, estAtFail, settled >>
       \/ ReturnErr
    /\ UNCHANGED << first_attempt, events, lastSend >>
    /\ UNCHANGED hostVars
    /\ UNCHANGED << nDeq, nAttempts, nHandshakes, nConnected >>
    /\ UNCHANGED cbVars

\* midi_out.connect(out_port, "launchpad-out")?
ConnectOut ==
    /\ pc = "connect_out"
    /\ \/ /\ connOut' = TRUE
          /\ outLog' = << >>
          /\ pc' = "handshake"
          /\ UNCHANGED << result, attempt, in_ports, out_ports, selVars, connIn, cmd, idx,
                          nFails, discSinceFail, estAtFail, settled >>
       \/ ReturnErr
    /\ UNCHANGED << first_attempt, events, lastSend >>
    /\ UNCHANGED hostVars
    /\ UNCHANGED << nDeq, nAttempts, nHandshakes, nConnected >>
    /\ UNCHANGED cbVars

\* a mutation of HandshakeSent: the mode switch is left out
HandshakeLeftOut ==
    /\ nHandshakes' = nHandshakes + 1
    /\ pc' = "settle"
    /\ UNCHANGED << result, attempt, in_ports, out_ports, selVars, connIn, connOut, outLog, cmd, idx,
                    nFails, discSinceFail, estAtFail, settled >>

\* the send of the mode switch succeeds
HandshakeSent ==
    /\ outLog' = Append(outLog, ModeSwitch)
    /\ nHandshakes' = nHandshakes + 1
    /\ pc' = "settle"
    /\ UNCHANGED << result, attempt, in_ports, out_ports, selVars, connIn, connOut, cmd, idx,
                    nFails, discSinceFail, estAtFail, settled >>

\* a mutation of HandshakeFailed: the Err of the send is discarded
HandshakeFailureIgnored ==
    /\ pc' = "settle"
    /\ UNCHANGED << result, attempt, in_ports, out_ports, selVars, connIn, connOut, outLog, cmd, idx,
                    nFails, discSinceFail, estAtFail, settled, nHandshakes >>

\* the send of the mode switch fails: `?` returns the Err
HandshakeFailed ==
    /\ ReturnErr
    /\ UNCHANGED nHandshakes

\* conn_out.send(&[0xF0, .., 0xF7])?
Handshake ==
    /\ pc = "handshake"
    /\ (HandshakeSent \/ HandshakeFailed)
    /\ UNCHANGED << first_attempt, events, lastSend >>
    /\ UNCHANGED hostVars
    /\ UNCHANGED << nDeq, nAttempts, nConnected >>
    /\ UNCHANGED cbVars

\* thread::sleep(Duration::from_millis(100)) is over
Settle ==
    /\ pc = "settle"
    /\ settled' = TRUE
    /\ pc' = "connected"
    /\ UNCHANGED << first_attempt, result, attempt, in_ports, out_ports, selVars, connIn, connOut,
                    outLog, cmd, idx >>
    /\ UNCHANGED << events, lastSend >>
    /\ UNCHANGED hostVars
    /\ UNCHANGED << nDeq, nAttempts, nFails, nHandshakes, nConnected, discSinceFail,
                    estAtFail >>
    /\ UNCHANGED cbVars

\* let _ = tx_event.send(MidiEvent::Connected);
EmitConnected ==
    /\ pc = "connected"
    /\ events' = ChanSend(events, Connected)
    /\ lastSend' = SendResult(Connected)
    /\ nConnected' = nConnected + 1
    /\ pc' = "recv"
    /\ UNCHANGED << first_attempt, result, attempt, in_ports, out_ports, selVars, connIn, connOut,
                    outLog, cmd, idx >>
    /\ UNCHANGED hostVars
    /\ UNCHANGED << nDeq, nAttempts, nFails, nHandshakes, settled, discSinceFail,
                    estAtFail >>
    /\ UNCHANGED cbVars

(* --------------------- run_midi_loop: command loop --------------------- *)
\* a mutation of Received: the newest command is taken, not the oldest
ReceivedNewest(q) == q[Len(q)]

\* the command Receiver::recv returns from a non-empty channel
Received(q) == Head(q)

\* a mutation of Remaining: the receive drains the channel
RemainingDrained(q) == << >>

\* the channel after that receive
Remaining(q) == Tail(q)

\* a mutation of RecvError: a disconnected channel ends the loop with Ok(())
RecvErrorAsStop == "Ok"

\* what `rx_cmd.recv()?` makes run_midi_loop return when every sender is gone
RecvError == "Err"

\* let cmd = rx_cmd.recv()?; blocks while the queue is empty and a sender
\* is alive, fails when it is empty and every sender is gone
Recv ==
    /\ pc = "recv"
    /\ IF cmdQueue # << >>
       THEN /\ cmd' = Received(cmdQueue)
            /\ cmdQueue' = Remaining(cmdQueue)
            /\ idx' = 0
            /\ nDeq' = nDeq + 1
            /\ pc' = "send"
            /\ UNCHANGED << result, attempt, in_ports, out_ports, selVars, connIn, connOut, outLog,
                            nFails, discSinceFail, estAtFail, settled >>
       ELSE /\ ~txAlive
            /\ Return(RecvError)
            /\ UNCHANGED << cmdQueue, nDeq >>
    /\ UNCHANGED << first_attempt, events, lastSend >>
    /\ UNCHANGED << txAlive, rxOpen, issued >>
    /\ UNCHANGED << nAttempts, nHandshakes, nConnected >>
    /\ UNCHANGED cbVars

\* the match arm goes on after one send: to the next send of the arm, or
\* back to recv after the last
Advance ==
    /\ IF idx + 1 = MsgCount(cmd)
       THEN pc' = "recv" /\ cmd' = NoCmd /\ idx' = 0
       ELSE pc' = "send" /\ cmd' = cmd /\ idx' = idx + 1
    /\ UNCHANGED << result, attempt, in_ports, out_ports, selVars, connIn, connOut,
                    nFails, discSinceFail, estAtFail, settled >>

\* the send succeeds
SendOk ==
    /\ outLog' = Append(outLog, MsgAt(cmd, idx))
    /\ Advance

\* a mutation of SendFailed: the Err of the send is discarded and the arm
\* goes on
SendFailureIgnored ==
    /\ outLog' = outLog
    /\ Advance

\* the send fails: `?` returns the Err
SendFailed == ReturnErr

\* one conn_out.send(..)? of the match arm of cmd
Send ==
    /\ pc = "send"
    /\ (SendOk \/ SendFailed)
    /\ UNCHANGED << first_attempt, events, lastSend >>
    /\ UNCHANGED hostVars
    /\ UNCHANGED << nDeq, nAttempts, nHandshakes, nConnected >>
    /\ UNCHANGED cbVars

(* ---------------------------- input callback --------------------------- *)
\* one invocation of the closure with the raw message msg
Callback(msg) ==
    /\ message' = msg
    /\ IF Decode(msg) # << >>
       THEN /\ events' = ChanSend(events, Decode(msg)[1])
            /\ lastSend' = SendResult(Decode(msg)[1])
       ELSE UNCHANGED << events, lastSend >>
    /\ nInput' = nInput + 1
    /\ UNCHANGED workerVars
    /\ UNCHANGED hostVars
    /\ UNCHANGED histVars

\* the backend thread invokes the closure while the input connection lives
InputCallback ==
    /\ connIn
    /\ nInput < MaxInput
    /\ \E msg \in RawMsgs : Callback(msg)

(* -------------------------------- host --------------------------------- *)
\* tx_cmd.send(c) for a command c of the set S
HostSendFrom(S) ==
    /\ txAlive
    /\ Len(issued) < MaxIssued
    /\ \E c \in S :
          /\ cmdQueue' = Append(cmdQueue, c)
          /\ issued' = Append(issued, c)
    /\ UNCHANGED workerVars
    /\ UNCHANGED << txAlive, rxOpen, events, lastSend >>
    /\ UNCHANGED histVars
    /\ UNCHANGED cbVars

HostSend == HostSendFrom(HostCmds)
HostSendBurst == HostSendFrom(BurstCmds)

\* the host drops the Sender<MidiCommand>
HostDropSender ==
    /\ txAlive
    /\ txAlive' = FALSE
    /\ UNCHANGED workerVars
    /\ UNCHANGED << cmdQueue, rxOpen, issued, events, lastSend >>
    /\ UNCHANGED histVars
    /\ UNCHANGED cbVars

\* the host drops the Receiver<MidiEvent>
HostDropReceiver ==
    /\ rxOpen
    /\ rxOpen' = FALSE
    /\ UNCHANGED workerVars
    /\ UNCHANGED << cmdQueue, txAlive, issued, events, lastSend >>
    /\ UNCHANGED histVars
    /\ UNCHANGED cbVars

(* ---------------------------- specification ---------------------------- *)
Worker ==
    \/ LoopTop \/ MatchResult \/ RetryDelay
    \/ Enumerate \/ BackendInitFails \/ Select \/ CheckFound
    \/ ConnectIn \/ ConnectOut \/ Handshake \/ Settle \/ EmitConnected
    \/ Recv \/ Send

Next ==
    \/ Worker
    \/ InputCallback
    \/ HostSend \/ HostDropSender \/ HostDropReceiver

Spec == Init /\ [][Next]_vars

\* The outbound dispatcher with the ClearAll burst among the host's commands.
\* The input callback and the event receiver touch no variable of the
\* outbound path, and are left to Spec.
BurstNext ==
    \/ Worker
    \/ HostSendBurst \/ HostDropSender

BurstSpec == Init /\ [][BurstNext]_vars

\* The supervisor's control flow under the scheduling of the worker thread:
\* the thread runs and its sleeps end.  The worker discards the Result of
\* every send on the event channel, so the input callback and the event
\* receiver cannot influence its control flow; they are left to Spec.
FairNext ==
    \/ Worker
    \/ HostSend \/ HostDropSender

FairSpec == Init /\ [][FairNext]_vars /\ WF_vars(Worker)

\* The decoder of the input callback applied to one raw message.
DecodeInit == InitBase /\ message \in RawSamples
DecodeApply == nInput = 0 /\ Callback(message)
DecodeSpec == DecodeInit /\ [][DecodeApply]_vars

\* The dispatcher applied to one single-message command with arbitrary u8
\* parameters: the state of an established first session (reached in Spec by
\* LoopTop .. EmitConnected) in which the host has enqueued the command.
EncodeInit ==
    /\ pc = "recv"
    /\ first_attempt = TRUE
    /\ result = "None"
    /\ attempt = 0
    /\ in_ports = << Port(TRUE, <<"Launchpad", "DAW">>), Port(TRUE, <<"Launchpad", "MIDI">>) >>
    /\ out_ports = in_ports
    /\ lp_in = SelectPort(in_ports)
    /\ lp_out = SelectPort(out_ports)
    /\ enumCount = 0
    /\ pauseCount = 0
    /\ connIn = TRUE
    /\ connOut = TRUE
    /\ outLog = << ModeSwitch >>
    /\ cmd = NoCmd
    /\ idx = 0
    /\ cmdQueue \in {<< c >> : c \in EncodeCmds}
    /\ issued = cmdQueue
    /\ txAlive = TRUE
    /\ events = << Connected >>
    /\ rxOpen = TRUE
    /\ lastSend = [type |-> "Connected", ok |-> TRUE]
    /\ message = << >>
    /\ nDeq = 0
    /\ nAttempts = 1
    /\ nFails = 0
    /\ nHandshakes = 1
    /\ nConnected = 1
    /\ settled = TRUE
    /\ discSinceFail = 0
    /\ estAtFail = FALSE
    /\ nInput = 0

EncodeNext == Recv \/ Send

EncodeSpec == EncodeInit /\ [][EncodeNext]_vars

\* The port matcher applied to the lists the enumeration loop kept: the state
\* of a first attempt at the port selection, with one direction's list drawn
\* from MatchLists and the other's from PortLists.  The loop stopped at its
\* first pass if a name was readable and ran its three passes otherwise.
MatchStart ==
    /\ pc = "select"
    /\ first_attempt = TRUE
    /\ result = "None"
    /\ attempt = 0
    /\ \/ in_ports \in MatchLists /\ out_ports \in PortLists
       \/ in_ports \in PortLists /\ out_ports \in MatchLists
    /\ lp_in = 0
    /\ lp_out = 0
    /\ enumCount = (IF HasValidName(in_ports, out_ports) THEN 1 ELSE EnumAttempts)
    /\ pauseCount = enumCount - 1
    /\ connIn = FALSE
    /\ connOut = FALSE
    /\ outLog = << >>
    /\ cmd = NoCmd
    /\ idx = 0
    /\ cmdQueue = << >>
    /\ issued = << >>
    /\ txAlive = TRUE
    /\ events = << >>
    /\ rxOpen = TRUE
    /\ lastSend = NoSend
    /\ message = << >>
    /\ nDeq = 0
    /\ nAttempts = 1
    /\ nFails = 0
    /\ nHandshakes = 0
    /\ nConnected = 0
    /\ settled = FALSE
    /\ discSinceFail = 0
    /\ estAtFail = FALSE
    /\ nInput = 0

MatchNext == Select \/ CheckFound \/ ConnectIn \/ ConnectOut

MatchSpec == MatchStart /\ [][MatchNext]_vars

(* ------------------------------- claims -------------------------------- *)
InSession == pc \in {"recv", "send"}
AttemptStarted == pc \notin {"returned", "sleep", "top", "stopped"}

\* C1: in the host's event stream every Disconnected is preceded by a
\* Connected; in particular Disconnected is never the first event.
C1_NoDisconnectedBeforeConnected ==
    \A i \in 1..Len(events) :
        events[i].type = "Disconnected"
            => \E j \in 1..(i - 1) : events[j].type = "Connected"

\* C2: while the worker sleeps the retry delay after a failure that was not
\* the very first attempt, the Disconnected of that failure has already been
\* sent.
C2_DisconnectedBeforeDelay ==
    (pc = "sleep" /\ nAttempts > 1) => discSinceFail >= 1

\* C3: between a failure that follows at least one successful connection
\* and the start of the next connection attempt exactly one Disconnected is
\* sent: never two, and one once the next attempt has started.
C3_ExactlyOneDisconnected ==
    /\ discSinceFail <= 1
    /\ (nFails > 0 /\ estAtFail /\ AttemptStarted) => discSinceFail = 1

C3_Witness ==
    /\ nFails > 0 /\ estAtFail /\ pc = "enum"
    /\ discSinceFail = 1
    /\ Len(events) >= 2
    /\ events[Len(events)].type = "Disconnected"

\* C4: Connected is sent once per successful handshake and never without
\* one: the sends of Connected never outnumber the successful mode-switch
\* sends, they are equal except between the handshake and its Connected, and
\* when Connected has been sent in an attempt the mode switch is the first
\* message on that attempt's output and the settle delay has elapsed.
C4_ConnectedOncePerHandshake ==
    /\ IF pc \in {"settle", "connected"}
       THEN nHandshakes = nConnected + 1
       ELSE nHandshakes = nConnected
    /\ InSession => /\ settled
                    /\ connOut
                    /\ outLog # << >>
                    /\ outLog[1] = ModeSwitch

C4_Witness ==
    /\ pc = "recv"
    /\ nConnected = 2
    /\ nHandshakes = 2
    /\ nFails >= 2
    /\ Len(SelectSeq(events, LAMBDA e : e.type = "Connected")) = 2

\* C5: after a failed send of Connected, NoteOn or ControlChange on the
\* event channel (the host dropped the receiver) the worker is not serving
\* commands: the session has ended.
C5_FailedSendEndsSession ==
    (~lastSend.ok /\ lastSend.type \in {"Connected", "NoteOn", "ControlChange"})
        => ~InSession

\* C6: the worker never reaches the stopped state, and after every Err
\* return of run_midi_loop it starts another connection attempt (as long as
\* the explored number of attempts allows one).
C6_NeverStopsAlwaysRetries ==
    /\ [](pc # "stopped")
    /\ [](result # "Ok")
    /\ \A n \in 1..(MaxAttempts - 1) :
          (pc = "returned" /\ nAttempts = n) ~> (pc = "enum" /\ nAttempts = n + 1)

C6_Witness ==
    /\ pc = "enum"
    /\ ~txAlive
    /\ cmdQueue = << >>
    /\ nConnected >= 1
    /\ nFails >= 2

\* C7: the command channel loses nothing: its content is always the issued
\* commands that have not been dequeued, in issue order, and a command is
\* dequeued only by the receive of an established session, oldest first,
\* which then sends it.
C7_QueuedCommandsKept ==
    /\ [](cmdQueue = SubSeq(issued, nDeq + 1, Len(issued)))
    /\ [][nDeq' # nDeq =>
            /\ pc = "recv" /\ connOut /\ outLog[1] = ModeSwitch
            /\ nDeq' = nDeq + 1
            /\ cmd' = issued[nDeq']
            /\ pc' = "send"]_vars
    /\ [][(pc = "send" /\ idx = 0 /\ Len(outLog') > Len(outLog))
            => outLog'[Len(outLog')] = MsgAt(issued[nDeq], 0)]_vars

\* a command waits in the queue, with no session ever established, across
\* two failed attempts
C7_Witness ==
    /\ pc = "sleep"
    /\ nFails >= 2
    /\ nConnected = 0
    /\ cmdQueue # << >>
    /\ cmdQueue = issued

\* the messages of the commands cs, each command's messages contiguous; of
\* the last command only the first `last` messages
RECURSIVE Encoded(_, _)
Encoded(cs, last) ==
    IF cs = << >> THEN << >>
    ELSE IF Len(cs) = 1
         THEN [k \in 1..last |-> MsgAt(cs[1], k - 1)]
         ELSE [k \in 1..MsgCount(cs[1]) |-> MsgAt(cs[1], k - 1)]
              \o Encoded(Tail(cs), last)

\* the commands dequeued so far whose messages are complete
DoneDeq == IF pc = "send" THEN nDeq - 1 ELSE nDeq

\* C8: on an open output the messages after the handshake are the encodings
\* of a run of consecutive issued commands that ends with the last dequeued
\* one, in issue order, each command's messages contiguous (of the command
\* being sent, the messages sent so far).
C8_OutputInIssueOrder ==
    (connOut /\ outLog # << >>) =>
        \E k \in 0..DoneDeq :
            outLog = << ModeSwitch >>
                     \o Encoded(SubSeq(issued, DoneDeq - k + 1, DoneDeq),
                                IF k = 0 THEN 0 ELSE MsgCount(issued[DoneDeq]))
                     \o (IF pc = "send" THEN Encoded(<< issued[nDeq] >>, idx) ELSE << >>)

\* a ClearAll burst was sent whole, followed by the next command's message
C8_Witness ==
    /\ pc = "recv"
    /\ nDeq = 2
    /\ issued = << ClearAll, SetPadColor(10, 21) >>
    /\ Len(outLog) = 2 * ClearEnd + 2
    /\ outLog[2] = << 144, 0, 0 >>
    /\ outLog[2 * ClearEnd + 1] = << 176, ClearEnd - 1, 0 >>
    /\ outLog[2 * ClearEnd + 2] = << 144, 10, 21 >>

\* C9: on every open output the mode switch F0 00 20 29 02 0D 0E 01 F7 is
\* the first message sent and is sent once: past the handshake the log
\* starts with it and holds it nowhere else.
C9_ModeSwitchFirstAndOnce ==
    /\ (connOut /\ pc # "handshake") =>
          /\ outLog # << >>
          /\ outLog[1] = << 240, 0, 32, 41, 2, 13, 14, 1, 247 >>
          /\ \A k \in 2..Len(outLog) : outLog[k] # ModeSwitch
    /\ (connOut /\ pc = "handshake") => outLog = << >>
    /\ ~connOut => outLog = << >>

C9_Witness ==
    /\ connOut
    /\ nHandshakes = 2
    /\ Len(outLog) >= 3
    /\ outLog[1] = ModeSwitch
    /\ outLog[3][1] = 176

\* C10: every NoteOn delivered to the host has velocity in 1..127 and every
\* ControlChange has value in 1..127.
C10_VelocityAndValueIn1To127 ==
    \A i \in 1..Len(events) :
        /\ events[i].type = "NoteOn" => events[i].velocity \in 1..127
        /\ events[i].type = "ControlChange" => events[i].value \in 1..127

\* the event list the reference decoder of C11 yields for a raw message
C11_Reference(msg) ==
    IF Len(msg) < 3 THEN << >>
    ELSE IF msg[1] \in 144..159 /\ msg[3] > 0
         THEN << [type |-> "NoteOn", note |-> msg[2], velocity |-> msg[3]] >>
    ELSE IF msg[1] \in 176..191 /\ msg[3] > 0
         THEN << [type |-> "ControlChange", controller |-> msg[2], value |-> msg[3]] >>
    ELSE << >>

\* C11: for every raw message the callback delivers exactly what the
\* reference decoder yields: NoteOn for status nibble 9 (any channel) and a
\* non-zero third byte, ControlChange for nibble B and a non-zero third byte,
\* nothing for a short message, another nibble or a zero third byte.
C11_DecoderAgreesWithReference ==
    /\ nInput = 0 => events = << >>
    /\ nInput = 1 => events = C11_Reference(message)

C11_Witness ==
    /\ nInput = 1
    /\ message = << 159, 60, 127 >>
    /\ events = << NoteOn(60, 127) >>

\* the 254 messages of C12: [0x90, i, 0] then [0xB0, i, 0] for i = 0..126
C12_Burst ==
    [k \in 1..254 |-> IF k % 2 = 1 THEN << 144, (k - 1) \div 2, 0 >>
                                   ELSE << 176, (k - 2) \div 2, 0 >>]

\* C12: the step that completes a ClearAll is its 254th send, and the last
\* 254 messages on the output are then [0x90, i, 0], [0xB0, i, 0] for i
\* ascending from 0 to 126; the command starts with no message sent.
C12_ClearAllIs254Messages ==
    /\ [][(pc = "send" /\ cmd = ClearAll /\ pc' = "recv") =>
            /\ idx = 253
            /\ Len(outLog') >= 255
            /\ SubSeq(outLog', Len(outLog') - 253, Len(outLog')) = C12_Burst]_vars
    /\ [][(pc = "recv" /\ pc' = "send") => idx' = 0]_vars
    /\ [][(pc = "send" /\ pc' = "send" /\ idx' # idx) =>
            (idx' = idx + 1 /\ Len(outLog') = Len(outLog) + 1)]_vars

C12_Witness ==
    /\ pc = "recv"
    /\ connOut
    /\ nDeq = 1
    /\ issued[1] = ClearAll
    /\ outLog = << ModeSwitch >> \o C12_Burst

\* the one message C13 names for a single-message command
C13_Message(c) ==
    IF c.type = "SetPadColor" THEN << 144, c.note, c.color >>
    ELSE << 176, c.cc, c.color >>

\* C13: a dequeued SetPadColor{note, color} puts exactly [0x90, note, color]
\* on the output and a dequeued SetButtonColor{cc, color} exactly
\* [0xB0, cc, color], for the sampled u8 parameters: before the send the output holds
\* the handshake alone, after it the handshake and that one message.
C13_OneMessagePerColorCommand ==
    connOut =>
        outLog = IF nDeq = 1 /\ pc = "recv"
                 THEN << ModeSwitch, C13_Message(issued[1]) >>
                 ELSE << ModeSwitch >>

C13_Witness ==
    /\ pc = "recv"
    /\ nDeq = 1
    /\ cmdQueue = << >>
    /\ issued = << SetButtonColor(255, 200) >>
    /\ outLog = << ModeSwitch, << 176, 255, 200 >> >>

\* the port selection of the attempt has been made and its lists are alive
Selected ==
    pc \in {"check", "connect_in", "connect_out", "handshake", "settle", "connected",
            "recv", "send"}

Readable(ports) == SelectSeq(ports, LAMBDA p : p.readable)
ReadableUpTo(ports, k) == Len(Readable(SubSeq(ports, 1, k)))

\* C14: a port whose name lookup failed is never selected, the selection is
\* the one made over the list with those ports removed (same port, or none
\* in both), and an open connection is on a selected, readable port.
C14_UnreadablePortsExcluded ==
    /\ Selected =>
          /\ lp_in # 0 => in_ports[lp_in].readable
          /\ lp_out # 0 => out_ports[lp_out].readable
          /\ SelectPort(Readable(in_ports)) = ReadableUpTo(in_ports, lp_in)
          /\ SelectPort(Readable(out_ports)) = ReadableUpTo(out_ports, lp_out)
    /\ connIn => (Selected /\ lp_in # 0 /\ in_ports[lp_in].readable)
    /\ connOut => (Selected /\ lp_out # 0 /\ out_ports[lp_out].readable)

\* an unreadable Launchpad port precedes the readable port that is selected,
\* and the connections are open
C14_Witness ==
    /\ connIn /\ connOut
    /\ Len(in_ports) = 3
    /\ ~in_ports[1].readable
    /\ in_ports[1].name = <<"Launchpad", "MIDI", "1">>
    /\ lp_in = 3

\* the tiers of C15 over the ports whose name is readable
C15_T1(p) == p.readable /\ Contains(p.name, "Launchpad") /\ Contains(p.name, "MIDI")
C15_T2(p) == p.readable /\ Contains(p.name, "Launchpad") /\ ~Contains(p.name, "DAW")
C15_T3(p) == p.readable /\ Contains(p.name, "Launchpad")
C15_Any(ports, T(_)) == \E k \in 1..Len(ports) : T(ports[k])

\* the selection sel over ports follows the tier order of C15
C15_ByTier(ports, sel) ==
    /\ sel \in 0..Len(ports)
    /\ IF C15_Any(ports, C15_T1) THEN sel # 0 /\ C15_T1(ports[sel])
       ELSE IF C15_Any(ports, C15_T2) THEN sel # 0 /\ C15_T2(ports[sel])
       ELSE IF C15_Any(ports, C15_T3) THEN sel # 0 /\ C15_T3(ports[sel])
       ELSE sel = 0

C15_Example1 ==
    { Port(TRUE, <<"Launchpad", "MIDI", "1">>), Port(TRUE, <<"Launchpad", "DAW">>),
      Port(TRUE, <<"Other", "Device">>) }

\* C15: independently per direction the selected port is one of the first
\* tier that has a port: Launchpad and MIDI, else Launchpad and not DAW, else
\* Launchpad, else none; any ordering of {Launchpad MIDI 1, Launchpad DAW,
\* Other Device} selects Launchpad MIDI 1, and Launchpad DAW alone is selected.
C15_SelectionByTierOrder ==
    Selected =>
        /\ C15_ByTier(in_ports, lp_in)
        /\ C15_ByTier(out_ports, lp_out)
        /\ (Len(in_ports) = 3 /\ {in_ports[k] : k \in 1..3} = C15_Example1)
              => in_ports[lp_in].name = <<"Launchpad", "MIDI", "1">>
        /\ (Len(out_ports) = 3 /\ {out_ports[k] : k \in 1..3} = C15_Example1)
              => out_ports[lp_out].name = <<"Launchpad", "MIDI", "1">>
        /\ in_ports = << Port(TRUE, <<"Launchpad", "DAW">>) >> => lp_in = 1
        /\ out_ports = << Port(TRUE, <<"Launchpad", "DAW">>) >> => lp_out = 1

C15_Witness ==
    /\ pc = "connect_in"
    /\ in_ports = << Port(TRUE, <<"Launchpad", "DAW">>), Port(TRUE, <<"Other", "Device">>),
                     Port(TRUE, <<"Launchpad", "MIDI", "1">>) >>
    /\ lp_in = 3
    /\ lp_out # 0

\* C16: one connection attempt enumerates at most 3 times and has paused
\* once before the 2nd and once more before the 3rd enumeration only; while
\* the loop goes on, no enumeration so far had a readable name; the loop
\* ends at the first enumeration with a readable name or at the 3rd, and the
\* port selection is made over the lists of that enumeration.
C16_BoundedEnumeration ==
    /\ [](enumCount \in 0..3)
    /\ [](pc = "enum" =>
            /\ enumCount = attempt
            /\ enumCount < 3
            /\ pauseCount = (IF enumCount = 0 THEN 0 ELSE enumCount - 1)
            /\ enumCount > 0 => ~HasValidName(in_ports, out_ports))
    /\ [](pc = "select" =>
            /\ enumCount \in 1..3
            /\ pauseCount = enumCount - 1
            /\ HasValidName(in_ports, out_ports) \/ enumCount = 3)
    /\ [][pc = "select" =>
            /\ in_ports' = in_ports
            /\ out_ports' = out_ports
            /\ (pc' # "select" =>
                  /\ lp_in' = SelectPort(in_ports)
                  /\ lp_out' = SelectPort(out_ports))]_vars

\* three enumerations without a readable name: the third one's lists are used
C16_Witness ==
    /\ pc = "select"
    /\ enumCount = 3
    /\ pauseCount = 2
    /\ ~HasValidName(in_ports, out_ports)
    /\ in_ports # << >>
    /\ out_ports = << >>

\* C17: when a ClearAll has completed, the output holds the Note-Off and the
\* CC-Off of every index of the data model, 0 to 127 with 127 included.
C17_ClearAllCoversEveryIndex ==
    (pc = "recv" /\ connOut /\ Len(outLog) > 1 /\ nDeq >= 1 /\ issued[nDeq] = ClearAll)
        => \A i \in 0..127 :
              /\ \E k \in 1..Len(outLog) : outLog[k] = << 144, i, 0 >>
              /\ \E k \in 1..Len(outLog) : outLog[k] = << 176, i, 0 >>

\* C18: a step of the worker out of a send either puts one more message on
\* the output or ends the session at once: run_midi_loop returns Err, both
\* connections are released with nothing more sent on them, and the failing
\* command stays consumed (the queue and the dequeue count are untouched).
\* No command is dequeued twice: the dequeue count only grows and the queue
\* is always the issued commands past it.  Without an open output the worker
\* is not in the command loop.
C18_SendFailureEndsSession ==
    /\ [][(pc = "send" /\ (pc' # pc \/ idx' # idx)) =>
            \/ /\ Len(outLog') = Len(outLog) + 1
               /\ SubSeq(outLog', 1, Len(outLog)) = outLog
               /\ connOut'
            \/ /\ pc' = "returned"
               /\ result' = "Err"
               /\ ~connIn' /\ ~connOut'
               /\ outLog' = << >>
               /\ cmd' = NoCmd
               /\ cmdQueue' = cmdQueue
               /\ nDeq' = nDeq]_vars
    /\ [][nDeq' >= nDeq]_vars
    /\ [](Len(cmdQueue) = Len(issued) - nDeq)
    /\ [](~connOut => (outLog = << >> /\ pc \notin {"recv", "send"}))

\* a ClearAll failed in mid-burst in the first session; the second session
\* has sent the next command and nothing of the ClearAll
C18_Witness ==
    /\ pc = "recv"
    /\ txAlive
    /\ nConnected = 2
    /\ nFails = 1
    /\ nDeq = 2
    /\ issued = << ClearAll, SetPadColor(10, 21) >>
    /\ outLog = << ModeSwitch, << 144, 10, 21 >> >>

\* C19: every NoteOn or ControlChange in the host's event stream follows a
\* Connected of its own session: a Connected precedes it with no
\* Disconnected in between.
C19_NoInputEventBeforeConnected ==
    \A i \in 1..Len(events) :
        events[i].type \in {"NoteOn", "ControlChange"} =>
            \E j \in 1..(i - 1) :
                /\ events[j].type = "Connected"
                /\ \A k \in (j + 1)..(i - 1) : events[k].type # "Disconnected"

\* C20: between any two Connected events of the host's event stream there is
\* a Disconnected event.
C20_DisconnectedBetweenConnected ==
    \A i \in 1..Len(events), j \in 1..Len(events) :
        (i < j /\ events[i].type = "Connected" /\ events[j].type = "Connected")
            => \E k \in (i + 1)..(j - 1) : events[k].type = "Disconnected"

\* the first session was established on the very first attempt, ended, and
\* a second session was established on the second attempt
C20_Witness ==
    /\ nAttempts = 2
    /\ nConnected = 2
    /\ Len(events) = 3
    /\ events[1].type = "Connected"
    /\ events[2].type = "Disconnected"
    /\ events[3].type = "Connected"

====
